---- MODULE Spec2Model ----
(***************************************************************************)
(* Model of zap.py: the environment registry ROOT/<version>/<name>/ with   *)
(* its marker file pyvenv.cfg, name resolution, and the commands list,     *)
(* create, delete, activate, deactivate and set-default.                   *)
(*                                                                         *)
(* One invocation of the tool runs at a time.  An invocation is a single   *)
(* action unless it waits: on a line of standard input (the menu of        *)
(* select_environment, the confirmation of cmd_delete) or on the delegated *)
(* "python -m venv" subprocess of cmd_create.                              *)
(***************************************************************************)
EXTENDS Integers, Sequences, FiniteSets, TLC

\* ---------------------------------------------------------------- bounds
\* At most MaxDirs directories ROOT/<version>/<name> exist at a time.
MaxDirs == 2

\* A registry handed to list alone holds at most MaxListed directories.
MaxListed == 4

\* ------------------------------------------------------- input alphabets
None == "None"

\* Version tags whose characters are known to the model.
Tags == {"3.9", "3.10", "3.11-arm64", "3.11-x64"}

\* The tags the user types and the interpreter source reports: two that
\* differ only in a non-numeric segment, and one with a smaller number.
Versions == {"3.9", "3.11-arm64", "3.11-x64"}

\* What installed_pythons() may return: nothing, or either of two sets that
\* between them hold every tag and each lack one.
Snapshots == {{}, {"3.9", "3.11-arm64"}, {"3.11-arm64", "3.11-x64"}}

\* The tags given to set-default (it accepts any).
DefaultTags == {"3.9", "3.11-x64"}

\* Environment names the user may type.
Names == {"alpha", "beta"}

\* The characters of every string whose content the code inspects.
Chars ==
  [s \in Tags \cup Names |->
     CASE s = "3.9"        -> <<"3", ".", "9">>
       [] s = "3.10"       -> <<"3", ".", "1", "0">>
       [] s = "3.11-arm64" -> <<"3", ".", "1", "1", "-", "a", "r", "m", "6", "4">>
       [] s = "3.11-x64"   -> <<"3", ".", "1", "1", "-", "x", "6", "4">>
       [] s = "alpha"      -> <<"a", "l", "p", "h", "a">>
       [] s = "beta"       -> <<"b", "e", "t", "a">>]

\* Code points order the characters (str comparison in sorted()).
Alphabet ==
  <<" ", "+", "-", ".", "0", "1", "2", "3", "4", "5", "6", "7", "8", "9",
    "N", "Y", "a", "b", "e", "h", "l", "m", "n", "p", "r", "s", "t", "x", "y">>

Ord(c) == CHOOSE i \in 1..Len(Alphabet) : Alphabet[i] = c

Digits == <<"0", "1", "2", "3", "4", "5", "6", "7", "8", "9">>

IsDigit(c) == \E i \in 1..10 : Digits[i] = c

DigitVal(c) == (CHOOSE i \in 1..10 : Digits[i] = c) - 1

\* Lines the user may type at the menu (select_environment) ...
Choices == {<<"1">>, <<"2">>, <<"3">>, <<"0">>, <<>>, <<"a">>, <<" ", "2">>,
            <<"-", "1">>, <<"+", "1">>}

\* ... and at the confirmation prompt of cmd_delete.
Answers == {<<"y">>, <<"Y">>, <<"n">>, <<"N">>, <<>>, <<"y", "e", "s">>,
            <<" ", "y">>}

\* What a read of standard input can return besides a line.
Interrupt == "KeyboardInterrupt"
EndOfFile == "EOFError"

\* ------------------------------------------------------- python built-ins
\* str.strip() on the characters of a line
Whitespace == {" ", "\n"}

RECURSIVE LStrip(_)
LStrip(s) == IF s # <<>> /\ Head(s) \in Whitespace THEN LStrip(Tail(s)) ELSE s

RECURSIVE RStrip(_)
RStrip(s) ==
  IF s # <<>> /\ s[Len(s)] \in Whitespace
  THEN RStrip(SubSeq(s, 1, Len(s) - 1))
  ELSE s

Strip(s) == RStrip(LStrip(s))

RECURSIVE DigitsValue(_)
DigitsValue(s) ==
  IF s = <<>> THEN 0
  ELSE 10 * DigitsValue(SubSeq(s, 1, Len(s) - 1)) + DigitVal(s[Len(s)])

ValueError == "ValueError"

\* int(s): blanks around, an optional sign, then one or more digits;
\* anything else raises ValueError.  The result is <<"ok", n>> or
\* <<ValueError, 0>>.
int(s) ==
  LET t    == Strip(s)
      sign == IF t # <<>> /\ Head(t) \in {"+", "-"} THEN Head(t) ELSE "+"
      body == IF t # <<>> /\ Head(t) \in {"+", "-"} THEN Tail(t) ELSE t
  IN  IF body # <<>> /\ \A i \in 1..Len(body) : IsDigit(body[i])
      THEN <<"ok", IF sign = "-" THEN 0 - DigitsValue(body) ELSE DigitsValue(body)>>
      ELSE <<ValueError, 0>>

\* str.lower() on the characters of a line
LowerChar(c) == CASE c = "Y" -> "y" [] c = "N" -> "n" [] OTHER -> c

lower(s) == [i \in 1..Len(s) |-> LowerChar(s[i])]

\* str comparison: lexicographic by code point, a proper prefix is smaller
RECURSIVE StrLess(_, _)
StrLess(a, b) ==
  IF b = <<>> THEN FALSE
  ELSE IF a = <<>> THEN TRUE
  ELSE IF Head(a) # Head(b) THEN Ord(Head(a)) < Ord(Head(b))
  ELSE StrLess(Tail(a), Tail(b))

\* re.split(r'[\.-]', v): the pieces between the separators, empty ones kept
RECURSIVE SplitFrom(_, _)
SplitFrom(s, cur) ==
  IF s = <<>> THEN <<cur>>
  ELSE IF Head(s) \in {".", "-"} THEN <<cur>> \o SplitFrom(Tail(s), <<>>)
  ELSE SplitFrom(Tail(s), Append(cur, Head(s)))

re_split(s) == SplitFrom(s, <<>>)

\* float('inf') in a sort key.  The numeric parts of a key are never
\* negative ('-' is a separator), so -1 is free to stand for infinity.
Inf == 0 - 1

PartLess(x, y) == IF x = Inf THEN FALSE ELSE IF y = Inf THEN TRUE ELSE x < y

version_key_by_characters(v) ==
  [i \in 1..Len(Chars[v]) |-> Ord(Chars[v][i])]

\* version_key(v) of cmd_list
version_key(v) ==
  LET parts == re_split(Chars[v])
  IN  [i \in 1..Len(parts) |->
         IF int(parts[i])[1] = "ok" THEN int(parts[i])[2] ELSE Inf]

\* tuple comparison a < b
RECURSIVE TupleLess(_, _)
TupleLess(a, b) ==
  IF b = <<>> THEN FALSE
  ELSE IF a = <<>> THEN TRUE
  ELSE IF Head(a) # Head(b) THEN PartLess(Head(a), Head(b))
  ELSE TupleLess(Tail(a), Tail(b))

\* sorted(seq, key=...): stable, so an element goes after every element
\* that is not greater than it.  less[<<x, y>>] compares the keys.
RECURSIVE InsertSorted(_, _, _)
InsertSorted(done, x, less) ==
  IF done = <<>> THEN <<x>>
  ELSE IF less[<<x, Head(done)>>] THEN <<x>> \o done
  ELSE <<Head(done)>> \o InsertSorted(Tail(done), x, less)

RECURSIVE sorted(_, _)
sorted(seq, less) ==
  IF seq = <<>> THEN <<>>
  ELSE InsertSorted(sorted(SubSeq(seq, 1, Len(seq) - 1), less), seq[Len(seq)], less)

\* key=version_key
VersionLess ==
  [p \in Tags \X Tags |-> TupleLess(version_key(p[1]), version_key(p[2]))]

\* key=lambda e: e.name
NameLess == [p \in Names \X Names |-> StrLess(Chars[p[1]], Chars[p[2]])]

\* every order in which a directory iteration may return the set S
Orders(S) ==
  {o \in [1..Cardinality(S) -> S] : \A i, j \in 1..Cardinality(S) : i # j => o[i] # o[j]}

Range(f) == {f[i] : i \in DOMAIN f}

\* ------------------------------------------------------------------ state
VARIABLES
  verDirs,        \* the version tags v for which ROOT/<v>/ is a directory
  tree,           \* tree[<<v, n>>]: ROOT/<v>/<n> is "absent", a directory
                  \* without pyvenv.cfg ("partial") or one with it ("env")
  zaprc,          \* the lines of ~/.zaprc, none if the file is missing
  pc,             \* where the running invocation waits, "idle" between two
  cmd,            \* the subcommand of the current or last invocation
  args,           \* its parsed arguments
  stdinTty,       \* sys.stdin.isatty()
  stdoutTty,      \* sys.stdout.isatty()
  pythons,        \* installed_pythons() as this invocation saw it
  matching_envs,  \* find_envs_by_name's result, in discovery order
  env_dir,        \* the environment directory the command settled on
  exitCode,       \* exit status of the last invocation, NoExit while running
  error,          \* the failure it ended with, None if none
  stdout,         \* the kinds of message it has printed
  activation,     \* the directory whose activation command it printed
  listing,        \* the environments part printed by cmd_list
  spawned,        \* whether it started an interactive shell
  venv,           \* the delegated creation: None, "running", or how it ended
  input_lines,    \* the lines input() has returned to this invocation
  creators        \* create invocations running side by side, each with
                  \* its own position and exit; none when one runs alone

vars ==
  <<verDirs, tree, zaprc, pc, cmd, args, stdinTty, stdoutTty, pythons,
    matching_envs, env_dir, exitCode, error, stdout, activation, listing,
    spawned, venv, input_lines, creators>>

Paths == Tags \X Names

NoPath == <<>>

NoExit == 0 - 1

NoArgs ==
  [version |-> None, name |-> None, yes |-> FALSE, shell |-> FALSE,
   interactive |-> FALSE, virtual_env |-> FALSE]

\* ------------------------------------------------------------- filesystem
\* Path.exists() / Path.is_dir() of ROOT/<v>/<n>
Exists(p) == tree[p] # "absent"

\* (p / "pyvenv.cfg").exists()
HasMarker(p) == tree[p] = "env"

DirCount == Cardinality({p \in Paths : Exists(p)})

rmtree_of_parent(p, rm) ==
  [q \in Paths |-> IF q[1] = p[1] THEN "absent" ELSE tree[q]]

\* shutil.rmtree(p).  rm = "ok": the whole tree is gone.  Otherwise the
\* removal raised partway: nothing was removed yet ("env"), or the marker
\* went and the directory stayed ("partial").
rmtree(p, rm) == [tree EXCEPT ![p] = IF rm = "ok" THEN "absent" ELSE rm]

RmOutcomes == {"ok", "env", "partial"}

\* ------------------------------------------------------------- resolution
envs_by_version_marker_of_version_dir(order) ==
  [i \in 1..Len(order) |-> <<order[i], {}>>]

envs_by_version_any_dir(order) ==
  [i \in 1..Len(order) |->
     <<order[i], {n \in Names : Exists(<<order[i], n>>)}>>]

\* envs_by_version(): for every version directory, in iteration order, the
\* names below it that hold pyvenv.cfg
envs_by_version(order) ==
  [i \in 1..Len(order) |->
     <<order[i], {n \in Names : HasMarker(<<order[i], n>>)}>>]

RECURSIVE FindFrom(_, _, _, _)
FindFrom(order, name, find_all, found) ==
  IF order = <<>> THEN found
  ELSE LET potential_env == <<Head(order), name>>
       IN  IF Exists(potential_env) /\ HasMarker(potential_env)
           THEN IF ~find_all /\ Len(found) + 1 >= 2
                THEN Append(found, potential_env)
                ELSE FindFrom(Tail(order), name, find_all, Append(found, potential_env))
           ELSE FindFrom(Tail(order), name, find_all, found)

find_envs_by_name_first_only(order, name, find_all) ==
  LET found == FindFrom(order, name, find_all, <<>>)
  IN  IF found = <<>> THEN found ELSE <<found[1]>>

\* find_envs_by_name(name, find_all): the matches in discovery order
find_envs_by_name(order, name, find_all) == FindFrom(order, name, find_all, <<>>)

env_path_searches_other_tags(name, version) ==
  LET dir == <<version, name>>
  IN  IF Exists(dir) /\ HasMarker(dir) THEN dir
      ELSE IF \E v \in Versions : HasMarker(<<v, name>>)
      THEN <<CHOOSE v \in Versions : HasMarker(<<v, name>>), name>>
      ELSE NoPath

\* env_path(name, version) with a version: ROOT/<version>/<name> or None
env_path(name, version) ==
  LET dir == <<version, name>>
  IN  IF Exists(dir) /\ HasMarker(dir) THEN dir ELSE NoPath

\* "default_version="
ConfigKey ==
  <<"d", "e", "f", "a", "u", "l", "t", "_", "v", "e", "r", "s", "i", "o", "n", "=">>

\* str.startswith
StartsWith(line, prefix) ==
  Len(line) >= Len(prefix) /\ SubSeq(line, 1, Len(prefix)) = prefix

\* line.split("=", 1)[1]: what follows the first "="
AfterFirstEquals(line) ==
  LET first == CHOOSE i \in 1..Len(line) :
                 line[i] = "=" /\ \A j \in 1..(i - 1) : line[j] # "="
  IN  SubSeq(line, first + 1, Len(line))

\* The tag spelled by the characters cs; a tag unknown to the model is "?".
TagOf(cs) == IF \E t \in Tags : Chars[t] = cs THEN CHOOSE t \in Tags : Chars[t] = cs ELSE "?"

get_default_version_last_created ==
  IF verDirs # {} THEN CHOOSE v \in verDirs : TRUE ELSE None

\* get_default_version(): the value of the first line of ~/.zaprc that
\* starts with "default_version=", None without such a line
get_default_version ==
  IF \E i \in 1..Len(zaprc) : StartsWith(zaprc[i], ConfigKey)
  THEN LET i == CHOOSE k \in 1..Len(zaprc) :
                  /\ StartsWith(zaprc[k], ConfigKey)
                  /\ \A j \in 1..(k - 1) : ~StartsWith(zaprc[j], ConfigKey)
       IN  TagOf(AfterFirstEquals(Strip(zaprc[i])))
  ELSE None

\* ------------------------------------------------------------------- Init
Init ==
  /\ verDirs = {}
  /\ tree = [p \in Paths |-> "absent"]
  /\ zaprc = <<>>
  /\ pc = "idle"
  /\ cmd = None
  /\ args = NoArgs
  /\ stdinTty = FALSE
  /\ stdoutTty = FALSE
  /\ pythons = {}
  /\ matching_envs = <<>>
  /\ env_dir = NoPath
  /\ exitCode = 0
  /\ error = None
  /\ stdout = {}
  /\ activation = NoPath
  /\ listing = <<>>
  /\ spawned = FALSE
  /\ venv = None
  /\ input_lines = <<>>
  /\ creators = <<>>

\* A new invocation: parse_args, then args.func(args) with fresh outputs.
Begin(c, a) ==
  /\ pc = "idle"
  /\ cmd' = c
  /\ args' = a
  /\ input_lines' = <<>>
  /\ UNCHANGED creators

\* The invocation ends with exit status code.
Exit(code, err) ==
  /\ pc' = "exited"
  /\ exitCode' = code
  /\ error' = err

\* ------------------------------------------------------------------- list
\* A set as a sequence.  Used only where a sort by distinct keys follows,
\* so that the order chosen here cannot show in the result.
SeqOf(S) == CHOOSE o \in Orders(S) : TRUE

Sections_with_empty(order) ==
  LET envs     == envs_by_version(order)
      keys     == [i \in 1..Len(envs) |-> envs[i][1]]
      env_list == [v \in Range(keys) |-> envs[CHOOSE i \in 1..Len(envs) : envs[i][1] = v][2]]
      shown    == sorted(keys, VersionLess)
  IN  [i \in 1..Len(shown) |-> <<shown[i], sorted(SeqOf(env_list[shown[i]]), NameLess)>>]

\* The environments part of cmd_list: the version sections in the order of
\* sorted(envs.keys(), key=version_key), empty ones skipped, each with its
\* names in the order of sorted(env_list, key=lambda e: e.name).
Sections(order) ==
  LET envs     == envs_by_version(order)
      keys     == [i \in 1..Len(envs) |-> envs[i][1]]
      env_list == [v \in Range(keys) |-> envs[CHOOSE i \in 1..Len(envs) : envs[i][1] = v][2]]
      shown    == SelectSeq(sorted(keys, VersionLess), LAMBDA v : env_list[v] # {})
  IN  [i \in 1..Len(shown) |-> <<shown[i], sorted(SeqOf(env_list[shown[i]]), NameLess)>>]

\* cmd_list: the two headings, below the first one line per interpreter
\* of installed_pythons() (a line is named by its tag), below the second
\* the sections.
cmd_list(snapshot, order) ==
  /\ Begin("list", NoArgs)
  /\ pythons' = snapshot
  /\ listing' = Sections(order)
  /\ stdout' = {"interpreters", "environments"} \cup snapshot
  /\ Exit(0, None)
  /\ stdinTty' = FALSE /\ stdoutTty' = FALSE
  /\ matching_envs' = <<>> /\ env_dir' = NoPath /\ activation' = NoPath
  /\ spawned' = FALSE
  /\ venv' = None
  /\ UNCHANGED <<verDirs, tree, zaprc>>

\* ----------------------------------------------------------------- create
\* cmd_create up to the delegated creation: the version falls back to the
\* default, must be in the snapshot, the target must not exist; then the
\* parent directory is made and "python -m venv" is started.
create_check_marker_only(version, dir, snapshot) ==
  IF version = None THEN "NoVersionSpecified"
  ELSE IF version \notin snapshot THEN "InterpreterNotFound"
  ELSE IF HasMarker(dir) THEN "AlreadyExists"
  ELSE None

create_check_no_snapshot(version, dir, snapshot) ==
  IF version = None THEN "NoVersionSpecified"
  ELSE IF Exists(dir) THEN "AlreadyExists"
  ELSE None

\* The checks of cmd_create, in the code's order: the failure it exits
\* with, or None if the creation may go ahead.
create_check(version, dir, snapshot) ==
  IF version = None THEN "NoVersionSpecified"
  ELSE IF version \notin snapshot THEN "InterpreterNotFound"
  ELSE IF Exists(dir) THEN "AlreadyExists"
  ELSE None

cmd_create(version_arg, name, snapshot) ==
  LET version == IF version_arg = None THEN get_default_version ELSE version_arg
      dir     == IF version = None THEN NoPath ELSE <<version, name>>
      failure == create_check(version, dir, snapshot)
  IN  /\ Begin("create", [NoArgs EXCEPT !.version = version_arg, !.name = name])
      /\ stdinTty' = FALSE /\ stdoutTty' = FALSE
      /\ matching_envs' = <<>> /\ activation' = NoPath /\ listing' = <<>>
      /\ spawned' = FALSE
      /\ pythons' = IF version = None THEN {} ELSE snapshot
      /\ env_dir' = IF failure \in {None, "AlreadyExists"} THEN dir ELSE NoPath
      /\ UNCHANGED <<tree, zaprc>>
      /\ IF failure # None
         THEN /\ Exit(1, failure)
              /\ stdout' = {}
              /\ venv' = None
              /\ UNCHANGED verDirs
         ELSE /\ DirCount < MaxDirs
              /\ verDirs' = verDirs \cup {version}
              /\ stdout' = {"Creating"}
              /\ pc' = "run_venv"
              /\ venv' = "running"
              /\ exitCode' = NoExit
              /\ error' = None

\* run(venv_cmd) returned 0: the environment is complete.
venv_ok ==
  /\ pc = "run_venv"
  /\ venv' = "ok"
  /\ tree' = [tree EXCEPT ![env_dir] = "env"]
  /\ stdout' = stdout \cup {"Success!"}
  /\ Exit(0, None)
  /\ UNCHANGED <<verDirs, zaprc, cmd, args, stdinTty, stdoutTty, pythons,
                 matching_envs, env_dir, activation, listing, spawned,
                 input_lines, creators>>

\* What shutil.rmtree(env_dir, ignore_errors=True) leaves of the tree the
\* delegated creation had begun: nothing, or, when a removal error was
\* ignored, the directory without or with the marker file.
CleanupOutcomes == {"absent", "partial", "env"}

\* run(venv_cmd) returned non-zero or raised an Exception: what it left is
\* handed to shutil.rmtree(env_dir, ignore_errors=True), then sys.exit.
venv_failed(left) ==
  /\ pc = "run_venv"
  /\ venv' = "failed"
  /\ tree' = [tree EXCEPT ![env_dir] = left]
  /\ Exit(1, "CreationFailed")
  /\ UNCHANGED <<verDirs, zaprc, cmd, args, stdinTty, stdoutTty, pythons,
                 matching_envs, env_dir, stdout, activation, listing, spawned,
                 input_lines, creators>>

\* Ctrl+C while run() waits: KeyboardInterrupt is not an Exception, so no
\* handler of cmd_create runs; main prints "Operation cancelled." and exits
\* 1.  What the subprocess had written so far stays.
venv_interrupted(left) ==
  /\ pc = "run_venv"
  /\ venv' = Interrupt
  /\ tree' = [tree EXCEPT ![env_dir] = left]
  /\ Exit(1, Interrupt)
  /\ UNCHANGED <<verDirs, zaprc, cmd, args, stdinTty, stdoutTty, pythons,
                 matching_envs, env_dir, stdout, activation, listing, spawned,
                 input_lines, creators>>

\* ------------------------------------------------------ delete, activate
Remove_marker_only(dir, rm, out) ==
  /\ tree' = [tree EXCEPT ![dir] = "partial"]
  /\ stdout' = out \cup {"Done."}
  /\ Exit(0, None)
  /\ activation' = NoPath
  /\ spawned' = FALSE

Remove_ignores_errors(dir, rm, out) ==
  /\ tree' = rmtree(dir, rm)
  /\ stdout' = out \cup {"Done."}
  /\ Exit(0, None)
  /\ activation' = NoPath
  /\ spawned' = FALSE

\* shutil.rmtree(env_dir); print("Done.").  A removal that raises ends the
\* invocation with the uncaught exception's traceback and exit status 1.
Remove(dir, rm, out) ==
  /\ tree' = rmtree(dir, rm)
  /\ IF rm = "ok"
     THEN stdout' = out \cup {"Done."} /\ Exit(0, None)
     ELSE stdout' = out /\ Exit(1, "DeletionFailed")
  /\ activation' = NoPath
  /\ spawned' = FALSE

AfterResolve_prints_unless_spawned(c, a, dir, out, outTty) ==
  IF c = "delete"
  THEN IF a.yes
       THEN \E rm \in RmOutcomes : Remove(dir, rm, out)
       ELSE /\ pc' = "confirm_input"
            /\ stdout' = out \cup {"Delete?"}
            /\ exitCode' = NoExit
            /\ error' = None
            /\ activation' = NoPath
            /\ spawned' = FALSE
            /\ UNCHANGED tree
  ELSE /\ spawned' = (a.shell \/ (outTty /\ a.interactive))
       /\ activation' = IF spawned' THEN NoPath ELSE dir
       /\ stdout' = IF spawned' THEN out ELSE out \cup {"activate_cmd"}
       /\ Exit(0, None)
       /\ UNCHANGED tree

\* What cmd_delete and cmd_activate do once env_dir is settled.
\* delete: unless args.yes, ask "Delete ...? [y/N]" with input().
\* activate: print activate_cmd(env_dir); start a shell if --shell, or if
\* stdout is a terminal and --interactive was given.
AfterResolve(c, a, dir, out, outTty) ==
  IF c = "delete"
  THEN IF a.yes
       THEN \E rm \in RmOutcomes : Remove(dir, rm, out)
       ELSE /\ pc' = "confirm_input"
            /\ stdout' = out \cup {"Delete?"}
            /\ exitCode' = NoExit
            /\ error' = None
            /\ activation' = NoPath
            /\ spawned' = FALSE
            /\ UNCHANGED tree
  ELSE /\ activation' = dir
       /\ stdout' = out \cup {"activate_cmd"}
                        \cup (IF ~a.shell /\ outTty /\ a.interactive THEN {"Activating"} ELSE {})
       /\ spawned' = (a.shell \/ (outTty /\ a.interactive))
       /\ Exit(0, None)
       /\ UNCHANGED tree

\* The fields of the message of sys.exit(f"[!] No environment named
\* '{args.name}'") and of its variant " with Python {args.version}".
not_found_message(a) ==
  IF a.version # None THEN <<a.name, a.version>> ELSE <<a.name>>

NotFound_returns ==
  /\ Exit(0, None)
  /\ env_dir' = NoPath
  /\ matching_envs' = <<>>
  /\ stdout' = {}
  /\ activation' = NoPath
  /\ spawned' = FALSE
  /\ UNCHANGED tree

\* sys.exit("[!] No environment named ...")
NotFound ==
  /\ Exit(1, "EnvironmentNotFound")
  /\ env_dir' = NoPath
  /\ matching_envs' = <<>>
  /\ stdout' = {}
  /\ activation' = NoPath
  /\ spawned' = FALSE
  /\ UNCHANGED tree

select_environment_inverted(inTty) ==
  IF ~inTty
  THEN /\ pc' = "select_input"
       /\ exitCode' = NoExit
       /\ stdout' = {"Multiple", "Select"}
  ELSE /\ pc' = "exited"
       /\ exitCode' = 0
       /\ stdout' = {"Multiple", "Guidance"}

select_environment_always_asks(inTty) ==
  /\ pc' = "select_input"
  /\ exitCode' = NoExit
  /\ stdout' = {"Multiple", "Select"}

\* select_environment up to its read: the menu is printed; with stdin a
\* terminal a choice is asked for, otherwise the guidance is printed and
\* None returned, on which the caller returns.
select_environment(inTty) ==
  IF inTty
  THEN /\ pc' = "select_input"
       /\ exitCode' = NoExit
       /\ stdout' = {"Multiple", "Select"}
  ELSE /\ pc' = "exited"
       /\ exitCode' = 0
       /\ stdout' = {"Multiple", "Guidance"}

\* The lookup that opens cmd_delete and cmd_activate.  With --version only
\* env_path(name, version) is asked; without, find_envs_by_name(name), and
\* several matches go to select_environment.
Lookup(c, a, inTty, outTty) ==
  /\ Begin(c, a)
  /\ stdinTty' = inTty
  /\ stdoutTty' = outTty
  /\ pythons' = {}
  /\ listing' = <<>>
  /\ venv' = None
  /\ UNCHANGED <<verDirs, zaprc>>
  /\ IF a.version # None
     THEN LET dir == env_path(a.name, a.version)
          IN  IF dir = NoPath
              THEN NotFound
              ELSE /\ env_dir' = dir
                   /\ matching_envs' = <<>>
                   /\ AfterResolve(c, a, dir, {}, outTty)
     ELSE \E order \in Orders(verDirs) :
            LET found == find_envs_by_name(order, a.name, TRUE)
            IN  IF found = <<>>
                THEN NotFound
                ELSE IF Len(found) > 1
                THEN /\ matching_envs' = found
                     /\ env_dir' = NoPath
                     /\ activation' = NoPath
                     /\ spawned' = FALSE
                     /\ error' = None
                     /\ UNCHANGED tree
                     /\ select_environment(inTty)
                ELSE /\ matching_envs' = found
                     /\ env_dir' = found[1]
                     /\ AfterResolve(c, a, found[1], {"Using"}, outTty)

cmd_delete(name, version, yes, inTty) ==
  Lookup("delete", [NoArgs EXCEPT !.name = name, !.version = version, !.yes = yes],
         inTty, FALSE)

cmd_activate(name, version, shell, interactive, inTty, outTty) ==
  Lookup("activate",
         [NoArgs EXCEPT !.name = name, !.version = version, !.shell = shell,
                        !.interactive = interactive],
         inTty, outTty)

Waiting ==
  <<verDirs, zaprc, cmd, args, stdinTty, stdoutTty, pythons, matching_envs,
    listing, venv, creators>>

selection_negative_index(matching, choice) ==
  LET parsed     == int(choice)
      choice_idx == parsed[2] - 1
  IN  IF parsed[1] = ValueError THEN <<"InvalidInput", NoPath>>
      ELSE IF choice_idx < Len(matching)
      THEN <<"Selected",
             matching[IF choice_idx >= 0 THEN choice_idx + 1
                      ELSE Len(matching) + choice_idx + 1]>>
      ELSE <<"InvalidSelection", NoPath>>

selection_counts_from_end(matching, choice) ==
  LET parsed     == int(choice)
      choice_idx == parsed[2] - 1
  IN  IF parsed[1] = ValueError THEN <<"InvalidInput", NoPath>>
      ELSE IF 0 <= choice_idx /\ choice_idx < Len(matching)
      THEN <<"Selected", matching[Len(matching) - choice_idx]>>
      ELSE <<"InvalidSelection", NoPath>>

\* What select_environment makes of the line input() returned: the message
\* it prints and the match it returns, NoPath for None.
selection(matching, choice) ==
  LET parsed     == int(choice)
      choice_idx == parsed[2] - 1
  IN  IF parsed[1] = ValueError THEN <<"InvalidInput", NoPath>>
      ELSE IF 0 <= choice_idx /\ choice_idx < Len(matching)
      THEN <<"Selected", matching[choice_idx + 1]>>
      ELSE <<"InvalidSelection", NoPath>>

\* select_environment after input() returned a line, and its caller after
\* select_environment returned
select_line(choice) ==
  /\ pc = "select_input"
  /\ input_lines' = Append(input_lines, choice)
  /\ UNCHANGED Waiting
  /\ LET sel == selection(matching_envs, choice)
     IN  IF sel[2] = NoPath
         THEN /\ stdout' = stdout \cup {sel[1]}
              /\ Exit(0, None)
              /\ UNCHANGED <<tree, env_dir, activation, spawned>>
         ELSE /\ env_dir' = sel[2]
              /\ AfterResolve(cmd, args, sel[2], stdout \cup {sel[1]}, stdoutTty)

\* Ctrl+C at the menu: caught in select_environment, which returns None
select_interrupt ==
  /\ UNCHANGED input_lines
  /\ pc = "select_input"
  /\ stdout' = stdout \cup {"Cancelled"}
  /\ Exit(0, None)
  /\ UNCHANGED Waiting
  /\ UNCHANGED <<tree, env_dir, activation, spawned>>

\* end of input at the menu: input() raises EOFError, which nothing catches
select_eof ==
  /\ UNCHANGED input_lines
  /\ pc = "select_input"
  /\ Exit(1, EndOfFile)
  /\ UNCHANGED Waiting
  /\ UNCHANGED <<tree, env_dir, stdout, activation, spawned>>

confirm_line_unless_no(answer) ==
  /\ pc = "confirm_input"
  /\ input_lines' = Append(input_lines, answer)
  /\ UNCHANGED Waiting
  /\ UNCHANGED env_dir
  /\ IF lower(answer) = <<"n">>
     THEN /\ Exit(0, None)
          /\ UNCHANGED <<tree, stdout, activation, spawned>>
     ELSE \E rm \in RmOutcomes : Remove(env_dir, rm, stdout)

\* cmd_delete after input("Delete ...? [y/N] ") returned a line
confirm_line(answer) ==
  /\ pc = "confirm_input"
  /\ input_lines' = Append(input_lines, answer)
  /\ UNCHANGED Waiting
  /\ UNCHANGED env_dir
  /\ IF lower(answer) # <<"y">>
     THEN /\ Exit(0, None)
          /\ UNCHANGED <<tree, stdout, activation, spawned>>
     ELSE \E rm \in RmOutcomes : Remove(env_dir, rm, stdout)

\* Ctrl+C at the confirmation: propagates to main, which exits 1
confirm_interrupt ==
  /\ UNCHANGED input_lines
  /\ pc = "confirm_input"
  /\ Exit(1, Interrupt)
  /\ UNCHANGED Waiting
  /\ UNCHANGED <<tree, env_dir, stdout, activation, spawned>>

\* end of input at the confirmation: uncaught EOFError
confirm_eof ==
  /\ UNCHANGED input_lines
  /\ pc = "confirm_input"
  /\ Exit(1, EndOfFile)
  /\ UNCHANGED Waiting
  /\ UNCHANGED <<tree, env_dir, stdout, activation, spawned>>

\* ------------------------------------------------- deactivate, set-default
Quiet ==
  /\ stdinTty' = FALSE /\ stdoutTty' = FALSE /\ pythons' = {}
  /\ matching_envs' = <<>> /\ env_dir' = NoPath /\ activation' = NoPath
  /\ listing' = <<>> /\ venv' = None

\* cmd_deactivate: without VIRTUAL_ENV in the environment it prints "No
\* active virtual environment detected." and returns.  With it, it prints
\* "Deactivating environment: <name>" and runs a shell on deactivate_cmd();
\* it has no flags and asks neither stream whether it is a terminal.
cmd_deactivate(virtual_env, outTty) ==
  /\ Begin("deactivate", [NoArgs EXCEPT !.virtual_env = virtual_env])
  /\ stdinTty' = FALSE /\ stdoutTty' = outTty /\ pythons' = {}
  /\ matching_envs' = <<>> /\ env_dir' = NoPath /\ activation' = NoPath
  /\ listing' = <<>> /\ venv' = None
  /\ IF ~virtual_env
     THEN stdout' = {"NoActive"} /\ spawned' = FALSE
     ELSE stdout' = {"Deactivating"} /\ spawned' = TRUE
  /\ Exit(0, None)
  /\ UNCHANGED <<verDirs, tree, zaprc>>

set_default_version_appends(version) ==
  /\ Begin("set-default", [NoArgs EXCEPT !.version = version])
  /\ Quiet
  /\ zaprc' = zaprc \o <<ConfigKey \o Chars[version] \o <<"\n">>>>
  /\ stdout' = {"DefaultSet"}
  /\ spawned' = FALSE
  /\ Exit(0, None)
  /\ UNCHANGED <<verDirs, tree>>

\* set_default_version: ~/.zaprc is opened with "w" and the one line
\* "default_version=<version>" written; nothing is looked up.
set_default_version(version) ==
  /\ Begin("set-default", [NoArgs EXCEPT !.version = version])
  /\ Quiet
  /\ zaprc' = <<ConfigKey \o Chars[version] \o <<"\n">>>>
  /\ stdout' = {"DefaultSet"}
  /\ spawned' = FALSE
  /\ Exit(0, None)
  /\ UNCHANGED <<verDirs, tree>>

\* The process is gone: its arguments and locals with it.  The registry and
\* ~/.zaprc stay, and the next invocation starts from them.
Return ==
  /\ pc = "exited"
  /\ pc' = "idle"
  /\ cmd' = None
  /\ args' = NoArgs
  /\ Quiet
  /\ input_lines' = <<>>
  /\ exitCode' = 0
  /\ error' = None
  /\ stdout' = {}
  /\ spawned' = FALSE
  /\ UNCHANGED <<verDirs, tree, zaprc, creators>>

\* ------------------------------------------------------------------- Next
Next ==
  \/ \E snapshot \in Snapshots, order \in Orders(verDirs) :
       cmd_list(snapshot, order)
  \/ \E version \in Versions \cup {None}, name \in Names, snapshot \in Snapshots :
       cmd_create(version, name, snapshot)
  \/ venv_ok
  \/ \E left \in CleanupOutcomes : venv_failed(left)
  \/ \E left \in {"absent", "partial", "env"} : venv_interrupted(left)
  \/ \E name \in Names, version \in Versions \cup {None}, yes, inTty \in BOOLEAN :
       cmd_delete(name, version, yes, inTty)
  \/ \E name \in Names, version \in Versions \cup {None},
        shell, interactive, inTty, outTty \in BOOLEAN :
       cmd_activate(name, version, shell, interactive, inTty, outTty)
  \/ \E choice \in Choices : select_line(choice)
  \/ select_interrupt
  \/ select_eof
  \/ \E answer \in Answers : confirm_line(answer)
  \/ confirm_interrupt
  \/ confirm_eof
  \/ \E virtual_env, outTty \in BOOLEAN : cmd_deactivate(virtual_env, outTty)
  \/ \E version \in DefaultTags : set_default_version(version)
  \/ Return

Spec == Init /\ [][Next]_vars

\* ------------------------------------------------------------ list alone
\* list run on its own over any registry of at most MaxListed directories
\* under the known tags: every version directory that holds something is
\* there, and empty version directories may be.
ListInit ==
  /\ verDirs \in SUBSET Tags
  /\ tree \in [Paths -> {"absent", "partial", "env"}]
  /\ \A p \in Paths : Exists(p) => p[1] \in verDirs
  /\ DirCount <= MaxListed
  /\ zaprc = <<>>
  /\ pc = "idle"
  /\ cmd = None
  /\ args = NoArgs
  /\ stdinTty = FALSE
  /\ stdoutTty = FALSE
  /\ pythons = {}
  /\ matching_envs = <<>>
  /\ env_dir = NoPath
  /\ exitCode = 0
  /\ error = None
  /\ stdout = {}
  /\ activation = NoPath
  /\ listing = <<>>
  /\ spawned = FALSE
  /\ venv = None
  /\ input_lines = <<>>
  /\ creators = <<>>

ListNext ==
  \/ \E snapshot \in Snapshots, order \in Orders(verDirs) :
       cmd_list(snapshot, order)
  \/ Return

ListSpec == ListInit /\ [][ListNext]_vars

\* ------------------------------------------------- two creates at once
\* Two invocations of "zap create <version> <name>" with the same
\* arguments run side by side on one registry.  Each is cmd_create cut where
\* another process can act in between: after the checks, after the mkdir
\* that precedes the delegated creation, and between the return of the
\* delegated creation and the cleanup.
Creators == {1, 2}

\* What a delegated creation that ends without success may leave of the
\* directory it found: it adds to it, it takes nothing away.
Grown(cur) ==
  CASE cur = "absent"  -> {"absent", "partial", "env"}
    [] cur = "partial" -> {"partial", "env"}
    [] OTHER           -> {"env"}

\* What shutil.rmtree(env_dir, ignore_errors=True) may leave of it.
Cleaned(cur) ==
  IF cur = "absent" THEN {"absent"} ELSE {"absent", "partial", cur}

RaceInit ==
  /\ verDirs = {}
  /\ tree = [p \in Paths |-> "absent"]
  /\ zaprc = <<>>
  /\ pc = "concurrent"
  /\ cmd = "create"
  /\ \E version \in Versions, name \in Names :
       /\ args = [NoArgs EXCEPT !.version = version, !.name = name]
       /\ env_dir = <<version, name>>
  /\ stdinTty = FALSE
  /\ stdoutTty = FALSE
  /\ pythons = {}
  /\ matching_envs = <<>>
  /\ exitCode = NoExit
  /\ error = None
  /\ stdout = {}
  /\ activation = NoPath
  /\ listing = <<>>
  /\ spawned = FALSE
  /\ venv = None
  /\ input_lines = <<>>
  /\ creators = [c \in Creators |-> [pc |-> "start", exitCode |-> NoExit, error |-> None]]

\* What no step of the racing invocations changes.
Shared ==
  <<zaprc, pc, cmd, args, stdinTty, stdoutTty, pythons, matching_envs,
    env_dir, exitCode, error, stdout, activation, listing, spawned, venv,
    input_lines>>

\* The invocation c moves to position to.
Moves(c, to) == creators' = [creators EXCEPT ![c].pc = to]

\* The invocation c ends with exit status code.
Exits(c, code, err) ==
  creators' = [creators EXCEPT ![c] = [pc |-> "exited", exitCode |-> code, error |-> err]]

\* the checks of cmd_create, up to `if env_dir.exists()`
creator_check(c, snapshot) ==
  /\ creators[c].pc = "start"
  /\ LET failure == create_check(args.version, env_dir, snapshot)
     IN  IF failure # None THEN Exits(c, 1, failure) ELSE Moves(c, "checked")
  /\ UNCHANGED <<verDirs, tree>>
  /\ UNCHANGED Shared

\* env_dir.parent.mkdir(parents=True, exist_ok=True), the probe, and the
\* start of run(venv_cmd)
creator_mkdir(c) ==
  /\ creators[c].pc = "checked"
  /\ verDirs' = verDirs \cup {args.version}
  /\ Moves(c, "run_venv")
  /\ UNCHANGED tree
  /\ UNCHANGED Shared

\* run(venv_cmd) returned 0: print("Success!")
creator_venv_ok(c) ==
  /\ creators[c].pc = "run_venv"
  /\ tree' = [tree EXCEPT ![env_dir] = "env"]
  /\ Exits(c, 0, None)
  /\ UNCHANGED verDirs
  /\ UNCHANGED Shared

\* run(venv_cmd) returned non-zero or raised an Exception
creator_venv_failed(c, left) ==
  /\ creators[c].pc = "run_venv"
  /\ left \in Grown(tree[env_dir])
  /\ tree' = [tree EXCEPT ![env_dir] = left]
  /\ Moves(c, "cleanup")
  /\ UNCHANGED verDirs
  /\ UNCHANGED Shared

\* shutil.rmtree(env_dir, ignore_errors=True); sys.exit(out)
creator_cleanup(c, left) ==
  /\ creators[c].pc = "cleanup"
  /\ left \in Cleaned(tree[env_dir])
  /\ tree' = [tree EXCEPT ![env_dir] = left]
  /\ Exits(c, 1, "CreationFailed")
  /\ UNCHANGED verDirs
  /\ UNCHANGED Shared

\* Ctrl+C while run(venv_cmd) waits: no cleanup, main exits 1
creator_interrupted(c, left) ==
  /\ creators[c].pc = "run_venv"
  /\ left \in Grown(tree[env_dir])
  /\ tree' = [tree EXCEPT ![env_dir] = left]
  /\ Exits(c, 1, Interrupt)
  /\ UNCHANGED verDirs
  /\ UNCHANGED Shared

RaceNext ==
  \/ \E c \in Creators, snapshot \in Snapshots : creator_check(c, snapshot)
  \/ \E c \in Creators : creator_mkdir(c)
  \/ \E c \in Creators : creator_venv_ok(c)
  \/ \E c \in Creators, left \in CleanupOutcomes : creator_venv_failed(c, left)
  \/ \E c \in Creators, left \in CleanupOutcomes : creator_cleanup(c, left)
  \/ \E c \in Creators, left \in CleanupOutcomes : creator_interrupted(c, left)

RaceSpec == RaceInit /\ [][RaceNext]_vars

\* --------------------------------------------------------------- claims
\* The tags under which name n is a valid environment right now.
ValidTags(n) == {v \in Versions : tree[<<v, n>>] = "env"}

\* The version tag a create works with: the one given, else the default.
CreateTag(a) == IF a.version = None THEN get_default_version ELSE a.version

\* Every list run in this registry state prints exactly one section for
\* tag v, with name n in it.
ListedUnder(v, n) ==
  \A order \in Orders(verDirs) :
    LET secs == Sections(order)
    IN  /\ Cardinality({i \in 1..Len(secs) : secs[i][1] = v}) = 1
        /\ \E i \in 1..Len(secs) :
             secs[i][1] = v /\ \E j \in 1..Len(secs[i][2]) : secs[i][2][j] = n

\* No list run in this registry state prints name n under tag v.
NotListedUnder(v, n) ==
  \A order \in Orders(verDirs) :
    LET secs == Sections(order)
    IN  \A i \in 1..Len(secs) :
          secs[i][1] = v => \A j \in 1..Len(secs[i][2]) : secs[i][2][j] # n

\* The answers that the prompt "[y/N]" takes for yes.
AffirmativeYes == {<<"y">>, <<"Y">>}

\* The line read at the confirmation prompt, if one was read: it follows
\* the menu choice when there was a menu.
ConfirmRead(lines) == Len(lines) = (IF Len(matching_envs) > 1 THEN 2 ELSE 1)

Last(lines) == lines[Len(lines)]

\* C1: a create with a tag of the snapshot and a fresh name goes on to the
\* delegated creation of ROOT/<tag>/<name>; when that succeeds the command
\* exits 0, the directory exists with the marker file, and every list run
\* shows the name in the one section of that tag.
C1_CreateThenListed ==
  /\ [][(/\ pc = "idle" /\ cmd' = "create"
         /\ CreateTag(args') # None
         /\ CreateTag(args') \in pythons'
         /\ tree[<<CreateTag(args'), args'.name>>] = "absent")
        => (/\ venv' = "running"
            /\ env_dir' = <<CreateTag(args'), args'.name>>)]_vars
  /\ [](pc = "exited" /\ cmd = "create" /\ venv = "ok"
        => (/\ exitCode = 0
            /\ error = None
            /\ env_dir = <<CreateTag(args), args.name>>
            /\ CreateTag(args) \in verDirs
            /\ tree[<<CreateTag(args), args.name>>] = "env"
            /\ ListedUnder(CreateTag(args), args.name)))

C1_Witness ==
  /\ pc = "exited" /\ cmd = "create" /\ venv = "ok" /\ exitCode = 0
  /\ args.version \in pythons
  /\ tree[<<args.version, args.name>>] = "env"
  /\ ListedUnder(args.version, args.name)

\* C2 as stated: a create for (version, name) whose directory already
\* exists, with or without the marker file, always fails with
\* AlreadyExists, runs no delegated creation and changes nothing.
C2_AlwaysAlreadyExists ==
  [][(/\ pc = "idle" /\ cmd' = "create"
      /\ CreateTag(args') # None
      /\ tree[<<CreateTag(args'), args'.name>>] # "absent")
     => (/\ pc' = "exited" /\ exitCode' # 0
         /\ error' = "AlreadyExists"
         /\ venv' = None
         /\ tree' = tree /\ verDirs' = verDirs)]_vars

\* C2 amended: a create for (version, name) whose directory already exists,
\* with or without the marker file, fails with AlreadyExists if the tag is
\* in the interpreter snapshot and with InterpreterNotFound if it is not;
\* either way it exits non-zero, runs no delegated creation, removes
\* nothing and leaves the registry unchanged.
C2_ExistingBlocksCreate ==
  [][(/\ pc = "idle" /\ cmd' = "create"
      /\ CreateTag(args') # None
      /\ tree[<<CreateTag(args'), args'.name>>] # "absent")
     => (/\ pc' = "exited" /\ exitCode' # 0
         /\ error' = (IF CreateTag(args') \in pythons'
                      THEN "AlreadyExists" ELSE "InterpreterNotFound")
         /\ venv' = None
         /\ tree' = tree /\ verDirs' = verDirs)]_vars

C2_Witness ==
  /\ pc = "exited" /\ cmd = "create" /\ error = "AlreadyExists"
  /\ exitCode = 1
  /\ tree[env_dir] = "partial"

\* C3: a create whose version tag is not in the interpreter snapshot fails
\* with InterpreterNotFound, exits non-zero and creates no directory:
\* the version directories and the environment directories are as before.
C3_UnknownVersionTouchesNothing ==
  [][(/\ pc = "idle" /\ cmd' = "create"
      /\ CreateTag(args') # None
      /\ CreateTag(args') \notin pythons')
     => (/\ pc' = "exited" /\ exitCode' # 0
         /\ error' = "InterpreterNotFound"
         /\ venv' = None
         /\ tree' = tree /\ verDirs' = verDirs)]_vars

C3_Witness ==
  /\ pc = "exited" /\ cmd = "create" /\ error = "InterpreterNotFound"
  /\ args.version # None
  /\ args.version \notin pythons
  /\ args.version \notin verDirs

\* C4: the confirmation prompt is reached only by a delete without the
\* skip flag that has settled on one valid environment; any answer to it
\* other than an affirmative one ends the command with exit code 0 and
\* leaves that environment, marker file included, and the rest of the
\* registry as they were.
C4_DeniedConfirmationKeeps ==
  /\ [](pc = "confirm_input"
        => cmd = "delete" /\ ~args.yes /\ env_dir # NoPath /\ tree[env_dir] = "env")
  /\ [][(/\ pc = "confirm_input"
         /\ input_lines' # input_lines
         /\ Last(input_lines') \notin AffirmativeYes)
        => (/\ pc' = "exited" /\ exitCode' = 0
            /\ tree' = tree /\ verDirs' = verDirs
            /\ tree'[env_dir'] = "env")]_vars

C4_Witness ==
  /\ pc = "exited" /\ cmd = "delete" /\ ~args.yes
  /\ env_dir # NoPath
  /\ ConfirmRead(input_lines)
  /\ Last(input_lines) = <<"y", "e", "s">>
  /\ exitCode = 0
  /\ tree[env_dir] = "env"

\* Resolving name n under tag v, or by name alone, does not yield
\* ROOT/<v>/<n>.
NotResolved(v, n) ==
  /\ env_path(n, v) = NoPath
  /\ \A order \in Orders(verDirs) :
       <<v, n>> \notin Range(find_envs_by_name(order, n, TRUE))

\* The confirmation of the delete was granted: the skip flag, or an
\* affirmative answer at the prompt.
Granted ==
  \/ args.yes
  \/ ConfirmRead(input_lines) /\ Last(input_lines) \in AffirmativeYes

\* C5: a delete that settled on one environment and whose confirmation was
\* granted, and whose removal ran to its end, exits 0 with the whole
\* directory gone: no list run prints it and no lookup resolves it.  The
\* same holds of every absent directory whenever an invocation starts, and
\* an absent directory stays absent until the delegated creation of a
\* create for that very directory.
C5_GrantedDeleteRemoves ==
  /\ [](pc = "exited" /\ cmd = "delete" /\ env_dir # NoPath /\ Granted
          /\ error # "DeletionFailed"
        => (/\ exitCode = 0
            /\ "Done." \in stdout
            /\ tree[env_dir] = "absent"
            /\ NotListedUnder(env_dir[1], env_dir[2])
            /\ NotResolved(env_dir[1], env_dir[2])))
  /\ [](pc = "idle"
        => \A p \in Paths :
             tree[p] = "absent" => NotListedUnder(p[1], p[2]) /\ NotResolved(p[1], p[2]))
  /\ [][\A p \in Paths :
          tree[p] = "absent" /\ tree'[p] # "absent"
          => cmd = "create" /\ pc = "run_venv" /\ env_dir = p]_vars

C5_Witness ==
  /\ pc = "exited" /\ cmd = "delete" /\ ~args.yes
  /\ env_dir # NoPath
  /\ ConfirmRead(input_lines) /\ Last(input_lines) = <<"Y">>
  /\ exitCode = 0
  /\ tree[env_dir] = "absent"
  /\ NotListedUnder(env_dir[1], env_dir[2])

\* C6: when a name is a valid environment under exactly two tags, looking it
\* up by name alone yields exactly those two (tag, path) pairs, in whatever
\* order the directories come, and looking it up with either tag yields
\* that tag's environment; a delete or activate by name then stands at the
\* menu with those two, one given a tag never has a list of matches.
C6_TwoTagsResolution ==
  /\ \A n \in Names :
       Cardinality(ValidTags(n)) = 2
       => /\ \A order \in Orders(verDirs) :
               LET found == find_envs_by_name(order, n, TRUE)
               IN  /\ Len(found) = 2
                   /\ Range(found) = {<<v, n>> : v \in ValidTags(n)}
          /\ \A v \in ValidTags(n) : env_path(n, v) = <<v, n>>
  /\ pc = "select_input"
     => /\ Len(matching_envs) >= 2
        /\ Len(matching_envs) = Cardinality(ValidTags(args.name))
        /\ Range(matching_envs) = {<<v, args.name>> : v \in ValidTags(args.name)}
  /\ cmd \in {"delete", "activate"} /\ args.version # None
     => /\ matching_envs = <<>>
        /\ env_dir \in {NoPath, <<args.version, args.name>>}

C6_Witness ==
  /\ pc = "select_input"
  /\ Cardinality(ValidTags(args.name)) = 2
  /\ Len(matching_envs) = 2

\* C7: a delete or activate given tag v and name n looks at ROOT/<v>/<n>
\* only.  If that is not a valid environment the command fails with
\* EnvironmentNotFound, whatever n is under other tags; otherwise it settles
\* on that directory.  No step of the command changes, or prints the
\* activation command of, any other directory.
C7_ExplicitTagOnly ==
  /\ [][(pc = "idle" /\ cmd' \in {"delete", "activate"} /\ args'.version # None)
        => LET p == <<args'.version, args'.name>>
           IN  /\ matching_envs' = <<>>
               /\ IF tree[p] = "env"
                  THEN env_dir' = p /\ error' # "EnvironmentNotFound"
                  ELSE /\ pc' = "exited" /\ exitCode' # 0
                       /\ error' = "EnvironmentNotFound"
                       /\ env_dir' = NoPath /\ activation' = NoPath
                       /\ tree' = tree]_vars
  /\ [][(cmd' \in {"delete", "activate"} /\ args'.version # None)
        => /\ \A q \in Paths \ {<<args'.version, args'.name>>} : tree'[q] = tree[q]
           /\ activation' \in {NoPath, <<args'.version, args'.name>>}
           /\ pc' # "select_input"]_vars

C7_Witness ==
  /\ pc = "exited" /\ cmd = "delete" /\ args.version # None
  /\ error = "EnvironmentNotFound"
  /\ tree[<<args.version, args.name>>] = "partial"
  /\ ValidTags(args.name) # {}

\* The integers a line typed at the menu denotes (none for the empty line
\* and for a letter).
NumbersOf(line) ==
  CASE line = <<"1">> -> {1}
    [] line = <<"2">> -> {2}
    [] line = <<"3">> -> {3}
    [] line = <<"0">> -> {0}
    [] line = <<" ", "2">> -> {2}
    [] line = <<"-", "1">> -> {0 - 1}
    [] line = <<"+", "1">> -> {1}
    [] OTHER -> {}

\* C8: a delete or activate given a name only settles on an environment
\* only if it is the one valid match, or the one the user chose at the
\* menu by its number; nothing but the directory settled on is changed or
\* activated.  With two or more valid matches and stdin not a terminal it
\* settles on none: nothing is deleted, no activation command is printed,
\* the guidance is, and the exit code is 0.
C8_NoImplicitDefault ==
  /\ [][(pc = "idle" /\ cmd' \in {"delete", "activate"} /\ args'.version = None)
        => LET V == ValidTags(args'.name)
           IN  /\ env_dir' # NoPath => V = {env_dir'[1]} /\ env_dir'[2] = args'.name
               /\ (Cardinality(V) >= 2 /\ ~stdinTty')
                  => (/\ pc' = "exited" /\ exitCode' = 0
                      /\ env_dir' = NoPath
                      /\ tree' = tree
                      /\ activation' = NoPath /\ ~spawned'
                      /\ "Guidance" \in stdout'
                      /\ "Done." \notin stdout'
                      /\ "activate_cmd" \notin stdout')]_vars
  /\ [][(pc = "select_input" /\ env_dir' # NoPath)
        => (/\ input_lines' = Append(input_lines, Last(input_lines'))
            /\ \E k \in NumbersOf(Last(input_lines')) :
                 /\ k \in 1..Len(matching_envs)
                 /\ env_dir' = matching_envs[k])]_vars
  /\ [][(cmd' \in {"delete", "activate"})
        => /\ \A q \in Paths : tree'[q] # tree[q] => q = env_dir'
           /\ activation' \in {NoPath, env_dir'}]_vars

C8_Witness ==
  /\ pc = "exited" /\ cmd = "delete" /\ args.version = None /\ args.yes
  /\ ~stdinTty
  /\ Cardinality(ValidTags(args.name)) >= 2
  /\ Len(matching_envs) >= 2
  /\ "Guidance" \in stdout
  /\ exitCode = 0

\* C9: the menu is read only with stdin a terminal; when a delete stands at
\* it and the line typed is empty, not a number, or a number outside 1..n,
\* the command ends with exit code 0, asks no confirmation and deletes
\* nothing.
C9_InvalidChoiceAborts ==
  /\ [](pc = "select_input" => stdinTty /\ Len(matching_envs) >= 2)
  /\ [][(/\ pc = "select_input" /\ cmd = "delete"
         /\ input_lines' # input_lines
         /\ NumbersOf(Last(input_lines')) \cap (1..Len(matching_envs)) = {})
        => (/\ pc' = "exited" /\ exitCode' = 0
            /\ env_dir' = NoPath
            /\ tree' = tree /\ verDirs' = verDirs
            /\ "Delete?" \notin stdout'
            /\ "Done." \notin stdout')]_vars

C9_Witness ==
  /\ pc = "exited" /\ cmd = "delete" /\ stdinTty
  /\ Len(matching_envs) >= 2
  /\ input_lines = << <<"0">> >>
  /\ "InvalidSelection" \in stdout
  /\ exitCode = 0

\* C10 as stated: with stdin not a terminal no invocation ever waits for a
\* line of standard input, neither at the menu nor at the confirmation.
C10_NeverReadsOffTerminal ==
  ~stdinTty => pc \notin {"select_input", "confirm_input"}

\* C10 amended: with stdin not a terminal the menu is never read: a delete
\* or activate by name with two or more matches prints the guidance and
\* ends at once with exit code 0, having read nothing.  The confirmation
\* of a delete without the skip flag is read from standard input whether
\* or not it is a terminal, and it is the only read made off a terminal.
C10_OnlyMenuDetectsTerminal ==
  /\ [](~stdinTty => pc # "select_input")
  /\ [](~stdinTty /\ pc \notin {"idle", "exited", "run_venv"}
        => pc = "confirm_input" /\ cmd = "delete" /\ ~args.yes)
  /\ [][(/\ pc = "idle" /\ cmd' \in {"delete", "activate"} /\ args'.version = None
         /\ Cardinality(ValidTags(args'.name)) >= 2 /\ ~stdinTty')
        => (/\ pc' = "exited" /\ exitCode' = 0
            /\ "Guidance" \in stdout'
            /\ input_lines' = <<>>)]_vars
  /\ [][(pc = "idle" /\ cmd' = "delete" /\ ~args'.yes /\ env_dir' # NoPath)
        => pc' = "confirm_input" /\ "Delete?" \in stdout']_vars

C10_Witness ==
  /\ pc = "exited" /\ cmd = "activate" /\ args.version = None
  /\ ~stdinTty
  /\ Len(matching_envs) >= 2
  /\ "Guidance" \in stdout
  /\ input_lines = <<>>
  /\ exitCode = 0

\* The failure conditions of the error taxonomy.
FailureConditions ==
  {"NoVersionSpecified", "InterpreterNotFound", "AlreadyExists",
   "CreationFailed", "EnvironmentNotFound", "DeletionFailed"}

\* The invocation ended on Ctrl+C typed at the confirmation prompt of a
\* delete.
CancelledAtConfirmation ==
  /\ pc = "exited" /\ cmd = "delete" /\ ~args.yes
  /\ "Delete?" \in stdout
  /\ error = Interrupt

\* C11: every invocation ends with exit code 0 when it succeeded or was
\* cancelled at a prompt (a negative confirmation, an invalid menu choice,
\* Ctrl+C at the menu or at the confirmation), and with a non-zero exit
\* code exactly when one of the failure conditions NoVersionSpecified,
\* InterpreterNotFound, AlreadyExists, CreationFailed, EnvironmentNotFound,
\* DeletionFailed occurred.
C11_ExitCodeContract ==
  pc = "exited"
  => /\ exitCode # 0 <=> error \in FailureConditions
     /\ CancelledAtConfirmation => exitCode = 0

\* C12: a delete or activate whose name has no valid environment, under the
\* tag given or under any tag when none is given, fails with
\* EnvironmentNotFound: it exits non-zero at once with a message that names
\* the environment, asks nothing and reads nothing, ends by sys.exit and
\* not by an uncaught exception, and leaves the registry as it was.
C12_NoMatchFails ==
  [][(/\ pc = "idle" /\ cmd' \in {"delete", "activate"}
      /\ IF args'.version # None
         THEN tree[<<args'.version, args'.name>>] # "env"
         ELSE ValidTags(args'.name) = {})
     => (/\ pc' = "exited" /\ exitCode' # 0
         /\ error' = "EnvironmentNotFound"
         /\ args'.name \in Range(not_found_message(args'))
         /\ input_lines' = <<>>
         /\ stdout' \cap {"Delete?", "Select", "Multiple"} = {}
         /\ activation' = NoPath /\ ~spawned'
         /\ tree' = tree /\ verDirs' = verDirs /\ zaprc' = zaprc)]_vars

C12_Witness ==
  /\ pc = "exited" /\ cmd = "activate" /\ args.version = None
  /\ error = "EnvironmentNotFound" /\ exitCode = 1
  /\ ValidTags(args.name) = {}
  /\ \E v \in Versions : tree[<<v, args.name>>] = "partial"
  /\ input_lines = <<>>

\* Some list run in this registry state prints name n under tag v.
SomeListShows(v, n) ==
  \E order \in Orders(verDirs) :
    LET secs == Sections(order)
    IN  \E i \in 1..Len(secs) :
          secs[i][1] = v /\ \E j \in 1..Len(secs[i][2]) : secs[i][2][j] = n

\* The list run that just ended printed name n under tag v.
Printed(v, n) ==
  \E i \in 1..Len(listing) :
    listing[i][1] = v /\ \E j \in 1..Len(listing[i][2]) : listing[i][2][j] = n

\* C13: in every registry state an invocation starts from or stands in the
\* middle of, and in the one a list run ends in (the state any other
\* invocation ends in is the one the next starts from), for every tag v and
\* name n: every list run prints n under v, the lookup of n with tag v
\* returns ROOT/<v>/<n>, and every lookup of n by name alone has
\* ROOT/<v>/<n> among its matches, if ROOT/<v>/<n> is a directory holding
\* the marker file; otherwise no list run prints it and no lookup returns
\* it.  What a list run has printed is exactly the valid environments.
C13_ValidIffMarker ==
  /\ (pc = "exited" /\ cmd = "list")
     => \A p \in Paths : Printed(p[1], p[2]) <=> tree[p] = "env"
  /\ (pc # "exited" \/ cmd = "list")
     => \A p \in Paths :
          IF tree[p] = "env"
          THEN /\ ListedUnder(p[1], p[2])
               /\ env_path(p[2], p[1]) = p
               /\ \A order \in Orders(verDirs) :
                    p \in Range(find_envs_by_name(order, p[2], TRUE))
          ELSE /\ ~SomeListShows(p[1], p[2])
               /\ NotResolved(p[1], p[2])

C13_Witness ==
  /\ pc = "exited" /\ cmd = "list"
  /\ \E p, q \in Paths :
       /\ p[2] = q[2]
       /\ tree[p] = "partial" /\ tree[q] = "env"
       /\ ~Printed(p[1], p[2])
       /\ Printed(q[1], q[2])
       /\ env_path(p[2], p[1]) = NoPath
       /\ env_path(q[2], q[1]) = q

\* C14: when the delegated creation returns a non-zero outcome, create
\* removes the partially created tree before failing: once the command has
\* ended with CreationFailed, its exit code is non-zero, ROOT/<version>/<name>
\* does not exist, no list run prints the name under that tag and no lookup
\* returns it.
C14_FailedCreationLeavesNothing ==
  (pc = "exited" /\ cmd = "create" /\ error = "CreationFailed")
  => /\ exitCode # 0
     /\ env_dir = <<CreateTag(args), args.name>>
     /\ tree[env_dir] = "absent"
     /\ ~SomeListShows(env_dir[1], env_dir[2])
     /\ NotResolved(env_dir[1], env_dir[2])

\* The Default Version Preference persisted in ~/.zaprc: the tag of its one
\* "default_version=<tag>" line, None when the file is missing.
StoredDefault ==
  IF zaprc = <<>> THEN None
  ELSE CHOOSE t \in Tags : zaprc = <<ConfigKey \o Chars[t] \o <<"\n">>>>

\* What a create that works with tag t and name n does from the current
\* registry, given the interpreter snapshot it took: refused for a tag not
\* in the snapshot, refused for an existing directory, otherwise the
\* delegated creation of ROOT/<t>/<n> is started.
CreatesUnder(t, n) ==
  IF t \notin pythons'
  THEN /\ pc' = "exited" /\ error' = "InterpreterNotFound"
       /\ tree' = tree /\ verDirs' = verDirs
  ELSE IF tree[<<t, n>>] # "absent"
  THEN /\ pc' = "exited" /\ error' = "AlreadyExists"
       /\ env_dir' = <<t, n>>
       /\ tree' = tree /\ verDirs' = verDirs
  ELSE /\ pc' = "run_venv" /\ venv' = "running"
       /\ env_dir' = <<t, n>>
       /\ tree' = tree /\ verDirs' = verDirs \cup {t}

\* C15: a create without a version tag works with the persisted default as
\* its tag; with no default persisted it fails with NoVersionSpecified,
\* exit code non-zero, no directory made or changed.  A create with a
\* version tag works with that tag whatever is persisted, and neither kind
\* changes what is persisted.
C15_DefaultOnlyWhenOmitted ==
  [][(pc = "idle" /\ cmd' = "create")
     => /\ zaprc' = zaprc
        /\ IF args'.version # None
           THEN CreatesUnder(args'.version, args'.name)
           ELSE IF StoredDefault # None
           THEN CreatesUnder(StoredDefault, args'.name)
           ELSE /\ pc' = "exited" /\ exitCode' # 0
                /\ error' = "NoVersionSpecified"
                /\ env_dir' = NoPath /\ venv' = None
                /\ tree' = tree /\ verDirs' = verDirs]_vars

C15_Witness ==
  /\ pc = "exited" /\ cmd = "create" /\ args.version = None
  /\ StoredDefault = "3.11-x64"
  /\ venv = "ok" /\ exitCode = 0
  /\ env_dir = <<"3.11-x64", args.name>>
  /\ tree[env_dir] = "env"
  /\ verDirs = {"3.9", "3.11-x64"}

\* C16: set-default takes any tag, in the interpreter snapshot or not, and
\* exits 0 with that tag persisted in place of whatever was persisted: what
\* a create reads back as the default is then exactly that tag, and stays
\* so until the next set-default, no other command writing the preference.
\* set-default changes no directory of the registry.
C16_LastSetDefaultWins ==
  /\ [][(pc = "idle" /\ cmd' = "set-default")
        => (/\ pc' = "exited" /\ exitCode' = 0 /\ error' = None
            /\ get_default_version' = args'.version
            /\ Len(zaprc') = 1
            /\ tree' = tree /\ verDirs' = verDirs)]_vars
  /\ [][zaprc' # zaprc => (pc = "idle" /\ cmd' = "set-default")]_vars

C16_Witness ==
  /\ pc = "exited" /\ cmd = "set-default" /\ exitCode = 0
  /\ args.version = "3.11-x64"
  /\ get_default_version = "3.11-x64"
  /\ verDirs = {"3.9"}
  /\ \E n \in Names : tree[<<"3.9", n>>] = "env"

\* The segments of each tag between '.' and '-': a number, or a word.
Segments ==
  [v \in Tags |->
     CASE v = "3.9"        -> << <<"number", 3>>, <<"number", 9>> >>
       [] v = "3.10"       -> << <<"number", 3>>, <<"number", 10>> >>
       [] v = "3.11-arm64" -> << <<"number", 3>>, <<"number", 11>>, <<"word", 0>> >>
       [] v = "3.11-x64"   -> << <<"number", 3>>, <<"number", 11>>, <<"word", 0>> >>]

\* Segment a comes before segment b: a smaller number, or a number against
\* a word.  Two words are not ordered here.
SegmentBefore(a, b) ==
  a[1] = "number" /\ (b[1] = "word" \/ a[2] < b[2])

\* Tag u comes before tag v: at the first segment where they differ.
TagBefore(u, v) ==
  \E k \in 1..Len(Segments[u]) :
    /\ k <= Len(Segments[v])
    /\ \A j \in 1..(k - 1) : Segments[u][j] = Segments[v][j]
    /\ SegmentBefore(Segments[u][k], Segments[v][k])

\* The tags of the sections a list run printed, top to bottom.
SectionTags == [i \in 1..Len(listing) |-> listing[i][1]]

\* C17: the sections list prints are in version-aware order: no section is
\* printed above one whose tag comes before its own, comparing the tags
\* segment by segment, numbers as integers and words after numbers; so 3.9
\* is printed above 3.10 and 3.10 above 3.11-arm64.  The names of a section
\* are in lexicographic order, alpha above beta.
C17_VersionAwareOrder ==
  (pc = "exited" /\ cmd = "list")
  => /\ \A i, j \in 1..Len(listing) :
          i < j => /\ SectionTags[i] # SectionTags[j]
                   /\ ~TagBefore(SectionTags[j], SectionTags[i])
     /\ \A i, j \in 1..Len(listing) :
          /\ (SectionTags[i] = "3.9" /\ SectionTags[j] = "3.10") => i < j
          /\ (SectionTags[i] = "3.10" /\ SectionTags[j] = "3.11-arm64") => i < j
     /\ \A i \in 1..Len(listing) :
          listing[i][2] \in {<<"alpha">>, <<"beta">>, <<"alpha", "beta">>}

C17_Witness ==
  /\ pc = "exited" /\ cmd = "list"
  /\ SectionTags = <<"3.9", "3.10", "3.11-arm64">>
  /\ listing[3][2] = <<"alpha", "beta">>

\* C18: a list run prints no section for a version directory without a
\* valid environment below it, be it empty or holding only directories
\* without the marker file, and prints a section for every other one; its
\* interpreter part has a line for every interpreter of the snapshot and
\* for nothing else, whether or not the registry has anything for it.
C18_EmptySectionsOmitted ==
  (pc = "exited" /\ cmd = "list")
  => /\ \A v \in verDirs :
          (\E i \in 1..Len(listing) : listing[i][1] = v)
          <=> (\E n \in Names : tree[<<v, n>>] = "env")
     /\ \A i \in 1..Len(listing) : listing[i][1] \in verDirs /\ listing[i][2] # <<>>
     /\ stdout \cap Tags = pythons
     /\ {"interpreters", "environments"} \subseteq stdout

C18_Witness ==
  /\ pc = "exited" /\ cmd = "list"
  /\ verDirs = {"3.9", "3.11-arm64"}
  /\ tree[<<"3.9", "alpha">>] = "partial" /\ tree[<<"3.9", "beta">>] = "absent"
  /\ tree[<<"3.11-arm64", "alpha">>] = "env"
  /\ pythons = {"3.11-arm64", "3.11-x64"}
  /\ "3.11-x64" \in stdout
  /\ Len(listing) = 1 /\ listing[1][1] = "3.11-arm64"

\* C19: an activate that has settled on an environment, by its tag, as the
\* one match or by a valid choice at the menu, has printed the activation
\* command of exactly that directory, a valid environment, and has ended
\* with exit code 0, whether or not it then started a shell; one that has
\* settled on none has printed no activation command and started no shell.
\* A shell is started only with the shell flag or with standard output a
\* terminal.  No other command prints an activation command.
C19_AlwaysPrintsActivation ==
  /\ cmd = "activate"
     => /\ env_dir # NoPath
           => (/\ pc = "exited" /\ exitCode = 0
               /\ env_dir[2] = args.name
               /\ tree[env_dir] = "env"
               /\ activation = env_dir
               /\ "activate_cmd" \in stdout)
        /\ env_dir = NoPath
           => (/\ activation = NoPath
               /\ "activate_cmd" \notin stdout
               /\ ~spawned)
        /\ spawned => (args.shell \/ stdoutTty)
        /\ (args.shell /\ env_dir # NoPath) => spawned
  /\ cmd # "activate" => activation = NoPath /\ "activate_cmd" \notin stdout

C19_Witness ==
  /\ pc = "exited" /\ cmd = "activate" /\ args.version = None
  /\ Len(matching_envs) = 2
  /\ input_lines = << <<"2">> >>
  /\ env_dir = matching_envs[2]
  /\ activation = env_dir
  /\ stdoutTty /\ ~args.interactive /\ ~args.shell
  /\ ~spawned

\* C20: deactivate goes by the active-environment signal alone.  Without
\* the signal it reports that nothing is active, emits no command, starts
\* no shell and exits 0; with it the deactivation command is emitted, by
\* printing it or by the shell that runs it, and a shell is started only
\* under the gating of activate: the shell flag, or standard output a
\* terminal.  Either way the registry and the persisted default are
\* untouched.
C20_DeactivateGated ==
  /\ [][(pc = "idle" /\ cmd' = "deactivate")
        => (/\ pc' = "exited" /\ exitCode' = 0
            /\ tree' = tree /\ verDirs' = verDirs /\ zaprc' = zaprc)]_vars
  /\ []((pc = "exited" /\ cmd = "deactivate")
        => IF ~args.virtual_env
           THEN /\ "NoActive" \in stdout
                /\ "deactivate_cmd" \notin stdout
                /\ ~spawned
           ELSE /\ "deactivate_cmd" \in stdout \/ spawned
                /\ spawned => (args.shell \/ stdoutTty))

\* C21: a delete whose confirmation was granted and whose removal did not
\* run to its end, the directory being still there with or without the
\* marker file, ends with DeletionFailed: its exit code is non-zero and it
\* has not printed "Done.".  A delete that has printed "Done." has exit
\* code 0 and the directory is gone.
C21_FailedRemovalSurfaced ==
  (pc = "exited" /\ cmd = "delete")
  => /\ (env_dir # NoPath /\ Granted /\ tree[env_dir] # "absent")
        => (/\ exitCode # 0
            /\ error = "DeletionFailed"
            /\ "Done." \notin stdout)
     /\ "Done." \in stdout
        => (/\ exitCode = 0 /\ error = None
            /\ env_dir # NoPath /\ Granted
            /\ tree[env_dir] = "absent")
     /\ error = "DeletionFailed" => (env_dir # NoPath /\ Granted)

C21_Witness ==
  /\ pc = "exited" /\ cmd = "delete" /\ ~args.yes
  /\ env_dir # NoPath
  /\ ConfirmRead(input_lines) /\ Last(input_lines) = <<"y">>
  /\ tree[env_dir] = "partial"
  /\ error = "DeletionFailed" /\ exitCode = 1
  /\ "Done." \notin stdout

\* The menu for name n when the version directories are iterated in the
\* given order: the valid environments of that name, in that order.
MenuOf(order, n) ==
  LET valid == SelectSeq(order, LAMBDA v : tree[<<v, n>>] = "env")
  IN  [i \in 1..Len(valid) |-> <<valid[i], n>>]

\* C22: a name-only delete or activate that waits at the menu has stdin a
\* terminal and has printed, numbered from 1, the n >= 2 valid environments
\* of that name, all of them, each once, in the order some iteration of the
\* version directories returns them, sorted or not: the lookup by name
\* returns them so for every iteration order.  A line that denotes a
\* number k of 1..n makes the command settle on the k-th of them: an
\* activate prints its activation command, a delete removes it or asks to
\* confirm its removal, and no step of the command from the menu on changes
\* or activates any other directory.
C22_MenuChoicePicksKth ==
  /\ [](pc = "idle"
        => \A n \in Names : \A order \in Orders(verDirs) :
             find_envs_by_name(order, n, TRUE) = MenuOf(order, n))
  /\ [](pc = "select_input"
        => /\ stdinTty /\ args.version = None
           /\ cmd \in {"delete", "activate"}
           /\ "Multiple" \in stdout
           /\ Len(matching_envs) >= 2
           /\ \E order \in Orders(verDirs) :
                matching_envs = MenuOf(order, args.name))
  /\ [][(/\ pc = "select_input"
         /\ input_lines' # input_lines
         /\ NumbersOf(Last(input_lines')) \cap (1..Len(matching_envs)) # {})
        => \E k \in NumbersOf(Last(input_lines')) :
             /\ env_dir' = matching_envs[k]
             /\ "Selected" \in stdout'
             /\ \A q \in Paths \ {matching_envs[k]} : tree'[q] = tree[q]
             /\ IF cmd = "activate"
                THEN /\ activation' = matching_envs[k]
                     /\ tree' = tree
                ELSE /\ activation' = NoPath
                     /\ IF args.yes
                        THEN pc' = "exited"
                        ELSE pc' = "confirm_input" /\ tree' = tree]_vars
  /\ [][pc = "confirm_input"
        => /\ env_dir' = env_dir
           /\ \A q \in Paths \ {env_dir} : tree'[q] = tree[q]]_vars

C22_Witness ==
  /\ pc = "exited" /\ cmd = "delete" /\ args.yes /\ args.version = None
  /\ matching_envs = << <<"3.11-x64", args.name>>, <<"3.9", args.name>> >>
  /\ input_lines = << <<"2">> >>
  /\ env_dir = <<"3.9", args.name>>
  /\ tree[<<"3.9", args.name>>] = "absent"
  /\ tree[<<"3.11-x64", args.name>>] = "env"
  /\ "Done." \in stdout

\* C23: the step that ends a delete with success, exit code 0 and "Done."
\* printed, takes exactly one directory away, the valid environment the
\* command had settled on: every other directory ROOT/<v>/<n>, those of the
\* same name under other tags and of other names under the same tag
\* included, is as before, and so is every version directory, the one that
\* held the environment included (and with it the registry root, its
\* parent), and the persisted default.  No step of a delete, successful or
\* not, changes any of these either.
C23_DeleteRemovesExactlyOne ==
  /\ [][(/\ cmd' = "delete" /\ pc # "exited" /\ pc' = "exited"
         /\ exitCode' = 0 /\ "Done." \in stdout')
        => (/\ env_dir' # NoPath
            /\ tree[env_dir'] = "env"
            /\ tree'[env_dir'] = "absent"
            /\ \A q \in Paths \ {env_dir'} : tree'[q] = tree[q]
            /\ verDirs' = verDirs
            /\ env_dir'[1] \in verDirs'
            /\ zaprc' = zaprc)]_vars
  /\ [][(cmd' = "delete" /\ pc # "exited")
        => (/\ \A q \in Paths : tree'[q] # tree[q] => q = env_dir'
            /\ verDirs' = verDirs
            /\ zaprc' = zaprc)]_vars

C23_Witness ==
  /\ pc = "exited" /\ cmd = "delete" /\ exitCode = 0
  /\ "Done." \in stdout
  /\ env_dir = <<"3.9", "alpha">>
  /\ tree[<<"3.9", "alpha">>] = "absent"
  /\ tree[<<"3.9", "beta">>] = "env"
  /\ "3.9" \in verDirs

\* C24: in every state reached by creates and deletes from the empty
\* registry, creates whose delegated creation fails or is interrupted by
\* Ctrl+C included, every directory ROOT/<version>/<name> that exists holds
\* the marker file; so a create that ends with AlreadyExists was refused
\* for a valid environment, one that list prints and a delete resolves.
C24_EveryDirectoryHasMarker ==
  /\ \A p \in Paths : tree[p] # "absent" => tree[p] = "env"
  /\ (pc = "exited" /\ cmd = "create" /\ error = "AlreadyExists")
     => (/\ tree[env_dir] = "env"
         /\ env_path(env_dir[2], env_dir[1]) = env_dir)

\* C25: when two creates for the same version and name have run side by
\* side and both have ended, every one of them that reported success, exit
\* code 0, has its environment: ROOT/<version>/<name> is there with the
\* marker file, no cleanup of the other having removed it.
C25_SuccessfulCreateKeepsItsEnvironment ==
  (\A c \in DOMAIN creators : creators[c].pc = "exited")
  => \A c \in DOMAIN creators :
       creators[c].exitCode = 0 => tree[env_dir] = "env"

\* C26: the order of the sections list prints is a function of the registry
\* alone: the sections a list run has printed are, tag for tag and in the
\* same order, those of a list run over the same registry under any other
\* order of iteration of the version directories, tags that differ only in
\* a word (3.11-arm64, 3.11-x64) included.
C26_SectionOrderIgnoresIteration ==
  (pc = "exited" /\ cmd = "list")
  => \A order \in Orders(verDirs) :
       LET secs == Sections(order)
       IN  [i \in 1..Len(secs) |-> secs[i][1]] = SectionTags

====
